---- MODULE Spec2Model ----
(***************************************************************************)
(* Model of the key/value store contract of CharlesBases/store and of its  *)
(* two adapters: the redis adapter (type rkv) and the mysql adapter (type  *)
(* ormStore).                                                              *)
(*                                                                         *)
(* Strings are sequences of one-character strings, so that the adapters'   *)
(* string operations (fmt.Sprintf("%s%s", table, key), redis glob          *)
(* patterns, SQL LIKE) are computed, not assumed.                          *)
(*                                                                         *)
(* Time is counted in ticks, TicksPerSec ticks to the second.  A           *)
(* time.Time is the tick count since the Unix epoch, the zero time.Time    *)
(* is 0; a time.Duration is a number of ticks.                             *)
(*                                                                         *)
(* The engines are external: a redis command and a SQL statement are       *)
(* atomic and do what their text asks for (the statements' placeholders    *)
(* for table names are read as the table they name), and no transport      *)
(* error happens, except that a dispatched delete may fail                 *)
(* (LazyDeleteFails, in SpecLazy).                                         *)
(***************************************************************************)
EXTENDS Integers, Sequences, FiniteSets, TLC

VARIABLES
    backend,    \* which NewStore built the store: "redis" or "mysql"
    now,        \* the clock, in ticks
    optTable,   \* options.Table of the store (rkv.options / ormStore.options)
    rdb,        \* redis keyspace: storage key -> [val, exp] (exp 0: no expiry)
    ormTable,   \* ormStore.table, the physical table configure() selected
    rows,       \* mysql: physical table -> rows in ascending id order
    nextId,     \* mysql: physical table -> next auto_increment id
    pending,    \* keys of the dispatched, not yet run `go orm.Delete(key)`
    res,        \* the last call of the Store interface: its inputs and result
    lw,         \* history: the last successful Write, while no other Write,
                \* Delete or Init has followed it
    writers     \* mysql: the Write calls running concurrently, each inside
                \* ormStore.set: its position, its record, the id it looked up

vars == <<backend, now, optTable, rdb, ormTable, rows, nextId, pending, res, lw, writers>>

-----------------------------------------------------------------------------
(* Bounds *)

\* clock resolution: ticks per second
TicksPerSec == 4
\* how many ticks the clock may advance after construction
Horizon == 3
\* cap of the auto_increment counter of a table
MaxId == 3
\* largest Limit / Offset a caller passes
MaxPage == 2

\* The store is built at second 1 of the epoch (a running program is never
\* at the epoch itself, where a stored expiry would equal the sentinel 0).
StartTime == TicksPerSec
MaxTime == StartTime + Horizon

-----------------------------------------------------------------------------
(* Strings *)

EmptyStr == << >>

IsPrefix(p, s) == Len(p) <= Len(s) /\ SubSeq(s, 1, Len(p)) = p

IsSuffix(p, s) == Len(p) <= Len(s) /\ SubSeq(s, Len(s) - Len(p) + 1, Len(s)) = p

Min(a, b) == IF a <= b THEN a ELSE b

\* every arrangement of a finite set as a sequence (an engine's or a Go
\* map's unspecified iteration order)
Orders(S) == { f \in [1..Cardinality(S) -> S] : \A i, j \in 1..Cardinality(S) : f[i] = f[j] => i = j }

-----------------------------------------------------------------------------
(* Inputs the callers draw from *)

Keys == { <<"a">>, <<"a", "b">>, <<"b", "a">> }

Values == { "v1", "v2" }

\* table names a store is configured with (WithDatabase); "" = not set
StoreTables == { EmptyStr, <<"b">> }

\* operation-level table option: {} when the option is not passed, {t} when
\* With{Read,Write,Delete}Database / WithListFrom passes table t
TableOpts == { {}, { <<"b">> }, { <<"c">> } }

\* record-level and operation-level TTL / Expiry
RecTTLs == { 0, 2 }
OptTTLs == { 0, TicksPerSec + 1 }
RecExpiries == { 0, StartTime + 1 }
OptExpiries == { 0, StartTime + 2 * TicksPerSec }

\* List patterns
Patterns == { EmptyStr, <<"a">>, <<"b">> }

\* Limit and Offset of a paginated call
Limits == 0..MaxPage

Offsets == 0..(MaxPage - 1)

-----------------------------------------------------------------------------
(* Time conversions *)

\* time.Time.Unix(): seconds since the epoch, the sub-second part dropped
Unix(t) == t \div TicksPerSec

\* time.Unix(sec, 0)
TimeUnix(sec) == sec * TicksPerSec

-----------------------------------------------------------------------------
(* The record of a call *)

NoCall ==
    [ op |-> "none", opt |-> {}, key |-> EmptyStr, val |-> "", rttl |-> 0, rexp |-> 0,
      ottl |-> 0, oexp |-> 0, prefix |-> FALSE, suffix |-> FALSE, lp |-> EmptyStr,
      ls |-> EmptyStr, limit |-> 0, offset |-> 0, at |-> 0, out |-> << >>, err |-> "nil" ]

NoWrite ==
    [ key |-> EmptyStr, opt |-> {}, val |-> "", expiry |-> 0, stored |-> 0, over |-> "",
      live |-> FALSE ]

-----------------------------------------------------------------------------
(* The expiry a Write is to resolve, as the contract states it: the         *)
(* operation-level TTL first, then the operation-level Expiry, then the    *)
(* record's Expiry, then the record's TTL; 0 = never expires.  Used by the *)
(* properties only.                                                        *)

ContractExpiry(t, rttl, rexp, ottl, oexp) ==
    IF ottl # 0 THEN t + ottl
    ELSE IF oexp # 0 THEN oexp
    ELSE IF rexp # 0 THEN rexp
    ELSE IF rttl # 0 THEN t + rttl
    ELSE 0

\* the history variable after a successful Write (h: whether the callers'
\* history is recorded; the specifications whose properties do not read it
\* leave it out)
Written(h, k, opt, v, expiry, stored) ==
    IF h
    THEN [ key |-> k, opt |-> opt, val |-> v, expiry |-> expiry, stored |-> stored,
           over |-> IF lw.live /\ lw.key = k /\ lw.opt = opt THEN lw.val ELSE "",
           live |-> TRUE ]
    ELSE NoWrite

-----------------------------------------------------------------------------
(* The redis engine *)

\* a stored entry is gone once the clock is past its expire time
RedisExpired(e, t) == e.exp # 0 /\ t > e.exp

\* GET / EXISTS: the entry is stored and not expired
RedisHas(rkey) == rkey \in DOMAIN rdb /\ ~RedisExpired(rdb[rkey], now)

\* KEYS prefix*
RedisKeysPrefix(p) == { rk \in DOMAIN rdb : RedisHas(rk) /\ IsPrefix(p, rk) }

\* KEYS *suffix
RedisKeysSuffix(s) == { rk \in DOMAIN rdb : RedisHas(rk) /\ IsSuffix(s, rk) }

\* go-redis v7 Set(key, value, expiration): the expiration is sent (PX/EX)
\* only when it is > 0; otherwise the entry has no expire time
RedisSetExpire(ttl, t) == IF ttl > 0 THEN t + ttl ELSE 0

RedisSet(db, rkey, v, ttl, t) ==
    [ rk \in (DOMAIN db) \cup {rkey} |->
        IF rk = rkey THEN [ val |-> v, exp |-> RedisSetExpire(ttl, t) ] ELSE db[rk] ]

\* DEL key
RedisDel(db, rkey) == [ rk \in (DOMAIN db) \ {rkey} |-> db[rk] ]

\* the engine drops the entries whose expire time has passed
RedisPurge(db, t) == [ rk \in { x \in DOMAIN db : ~RedisExpired(db[x], t) } |-> db[rk] ]

-----------------------------------------------------------------------------
(* The redis adapter, type rkv *)

\* options.Table = r.options.Table, then the operation's options applied
rkvTable(opt) == IF opt = {} THEN optTable ELSE CHOOSE t \in opt : TRUE

\* rkey := fmt.Sprintf("%s%s", options.Table, key)
rkvKey(opt, key) == rkvTable(opt) \o key

\* the TTL rkv.Write hands to Set
rkvWriteTTL(rttl, ottl, oexp, nopts, t) ==
    LET afterExpiry == IF nopts > 0 /\ oexp # 0 THEN t - oexp ELSE rttl
    IN  IF nopts > 0 /\ ottl # 0 THEN ottl ELSE afterExpiry

\* len(opts): the number of options passed
NumOpts(opt, ottl, oexp) ==
    (IF opt # {} THEN 1 ELSE 0) + (IF ottl # 0 THEN 1 ELSE 0) + (IF oexp # 0 THEN 1 ELSE 0)

rkvWrite(k, v, rttl, rexp, ottl, oexp, opt, h) ==
    /\ backend = "redis"
    /\ LET ttl  == rkvWriteTTL(rttl, ottl, oexp, NumOpts(opt, ottl, oexp), now)
           rkey == rkvKey(opt, k)
       IN  /\ rdb' = RedisSet(rdb, rkey, v, ttl, now)
           /\ lw' = Written(h, k, opt, v, ContractExpiry(now, rttl, rexp, ottl, oexp),
                            RedisSetExpire(ttl, now))
    /\ res' = [ NoCall EXCEPT !.op = "Write", !.opt = opt, !.key = k, !.val = v,
                !.rttl = rttl, !.rexp = rexp, !.ottl = ottl, !.oexp = oexp, !.at = now ]
    /\ UNCHANGED <<writers, backend, now, optTable, ormTable, rows, nextId, pending>>

\* the keys rkv.Read collects in its map
rkvReadKeys(rkey, prefix, suffix) ==
    {rkey} \cup (IF prefix THEN RedisKeysPrefix(rkey) ELSE {})
           \cup (IF suffix THEN RedisKeysSuffix(rkey) ELSE {})

\* what rkv.Read can return: the record of the call with its result
rkvReadResults(k, opt, prefix, suffix, limit, offset) ==
    LET rkey == rkvKey(opt, k)
        keys == rkvReadKeys(rkey, prefix, suffix)
        call == [ NoCall EXCEPT !.op = "Read", !.opt = opt, !.key = k, !.prefix = prefix,
                  !.suffix = suffix, !.limit = limit, !.offset = offset, !.at = now ]
    IN  IF \E rk \in keys : ~RedisHas(rk)
        THEN \* Get answers redis.Nil for one of the keys
             { [ call EXCEPT !.err = "NotFound" ] }
        ELSE \* one record per key, in the map's iteration order, each
             \* with Key: key, the key the caller asked for
             { [ call EXCEPT !.out =
                   [ i \in 1..Len(ord) |-> [ key |-> k, val |-> rdb[ord[i]].val ] ] ] :
               ord \in Orders(keys) }

rkvRead(k, opt, prefix, suffix, limit, offset) ==
    /\ backend = "redis"
    /\ res' \in rkvReadResults(k, opt, prefix, suffix, limit, offset)
    /\ UNCHANGED <<writers, backend, now, optTable, rdb, ormTable, rows, nextId, pending, lw>>

rkvDelete(k, opt) ==
    /\ backend = "redis"
    /\ rdb' = RedisDel(rdb, rkvKey(opt, k))
    /\ res' = [ NoCall EXCEPT !.op = "Delete", !.opt = opt, !.key = k, !.at = now ]
    /\ lw' = NoWrite
    /\ UNCHANGED <<writers, backend, now, optTable, ormTable, rows, nextId, pending>>

\* the pattern rkv.List hands to KEYS: the keys it matches
rkvListKeys(lp, ls) ==
    IF lp # EmptyStr THEN RedisKeysPrefix(lp)
    ELSE IF ls # EmptyStr THEN RedisKeysSuffix(ls)
    ELSE RedisKeysPrefix(EmptyStr)

\* what rkv.List can return: the keys KEYS answered, in its order
rkvListResults(opt, lp, ls, limit, offset) ==
    { [ NoCall EXCEPT !.op = "List", !.opt = opt, !.lp = lp, !.ls = ls,
        !.limit = limit, !.offset = offset, !.at = now,
        !.out = [ i \in 1..Len(ord) |-> [ key |-> ord[i], val |-> "" ] ] ] :
      ord \in Orders(rkvListKeys(lp, ls)) }

rkvList(opt, lp, ls, limit, offset) ==
    /\ backend = "redis"
    /\ res' \in rkvListResults(opt, lp, ls, limit, offset)
    /\ UNCHANGED <<writers, backend, now, optTable, rdb, ormTable, rows, nextId, pending, lw>>

\* rkv.Init(WithDatabase(_, t)): the option is applied, the client rebuilt
rkvInit(t) ==
    /\ backend = "redis"
    /\ optTable' = t
    /\ res' = [ NoCall EXCEPT !.op = "Init", !.at = now ]
    /\ lw' = NoWrite
    /\ UNCHANGED <<writers, backend, now, rdb, ormTable, rows, nextId, pending>>

-----------------------------------------------------------------------------
(* The mysql engine: one table of rows (id, key, value, expiry) per table  *)
(* name, key unique, id auto_increment.                                    *)

\* DefaultTable = "store"
DefaultTable == <<"s", "t", "o", "r", "e">>

\* configure(): table := orm.options.Table, DefaultTable when that is empty
ormConfigureTable(t) == IF Len(t) = 0 THEN DefaultTable ELSE t

PhysTables == { ormConfigureTable(t) : t \in StoreTables }

\* SELECT id FROM table WHERE key = ?  (0 when no row has the key)
ormLookupId(tab, key) ==
    IF \E i \in 1..Len(rows[tab]) : rows[tab][i].key = key
    THEN rows[tab][CHOOSE i \in 1..Len(rows[tab]) : rows[tab][i].key = key].id
    ELSE 0

\* orm.db.Create(r): INSERT with the next auto_increment id
ormCreate(tab, key, v, expiry) ==
    Append(rows[tab], [ id |-> nextId[tab], key |-> key, val |-> v, expiry |-> expiry ])

\* UPDATE table SET value = ?, expiry = ? WHERE id = ?
ormUpdate(tab, id, v, expiry) ==
    [ i \in 1..Len(rows[tab]) |->
        IF rows[tab][i].id = id
        THEN [ rows[tab][i] EXCEPT !.val = v, !.expiry = expiry ]
        ELSE rows[tab][i] ]

\* DELETE FROM table WHERE key = ? LIMIT 1
ormDeleteRow(tab, key) ==
    LET Keep(r) == r.key # key IN SelectSeq(rows[tab], Keep)

\* LIMIT limit OFFSET off over the ordered matches; gorm adds LIMIT only
\* when it is not 0
ormPage(s, limit, off) ==
    IF limit = 0 THEN s
    ELSE IF off >= Len(s) THEN << >>
    ELSE SubSeq(s, off + 1, Min(off + limit, Len(s)))

-----------------------------------------------------------------------------
(* The mysql adapter, type ormStore *)

\* the expiry column ormStore.Write computes (epoch seconds, 0 = none)
ormWriteExpiry(rttl, rexp, ottl, oexp, t) ==
    IF rexp # 0 THEN Unix(rexp)
    ELSE IF rttl # 0 THEN Unix(t + rttl)
    ELSE IF oexp # 0 THEN Unix(oexp)
    ELSE IF ottl # 0 THEN Unix(t + ottl)
    ELSE 0

\* storeRecord.Expiry != 0 && time.Unix(storeRecord.Expiry, 0).Before(time.Now())
ormExpired(row, t) == row.expiry # 0 /\ TimeUnix(row.expiry) < t

\* a set that never looks the id up and always inserts
ormSetInsertOnly(tab, key, v, expiry) ==
    /\ nextId[tab] <= MaxId
    /\ rows' = [ rows EXCEPT ![tab] = ormCreate(tab, key, v, expiry) ]
    /\ nextId' = [ nextId EXCEPT ![tab] = @ + 1 ]

\* ormStore.set: look the id up; insert when 0, else update the row
ormSet(tab, key, v, expiry) ==
    LET id == ormLookupId(tab, key)
    IN  IF id = 0
        THEN /\ nextId[tab] <= MaxId
             /\ rows' = [ rows EXCEPT ![tab] = ormCreate(tab, key, v, expiry) ]
             /\ nextId' = [ nextId EXCEPT ![tab] = @ + 1 ]
        ELSE /\ rows' = [ rows EXCEPT ![tab] = ormUpdate(tab, id, v, expiry) ]
             /\ UNCHANGED nextId

ormStoreWrite(k, v, rttl, rexp, ottl, oexp, opt, h) ==
    /\ backend = "mysql"
    /\ LET expiry == ormWriteExpiry(rttl, rexp, ottl, oexp, now)
       IN  /\ ormSet(ormTable, k, v, expiry)
           /\ lw' = Written(h, k, opt, v, ContractExpiry(now, rttl, rexp, ottl, oexp),
                            TimeUnix(expiry))
    /\ res' = [ NoCall EXCEPT !.op = "Write", !.opt = opt, !.key = k, !.val = v,
                !.rttl = rttl, !.rexp = rexp, !.ottl = ottl, !.oexp = oexp, !.at = now ]
    /\ UNCHANGED <<writers, backend, now, optTable, rdb, ormTable, pending>>

\* the WHERE clause of ormStore.Read (keys hold no LIKE wildcard)
ormReadWhere(row, key, prefix, suffix) ==
    IF prefix THEN IsPrefix(key, row.key) \/ (suffix /\ IsSuffix(key, row.key))
    ELSE IF suffix THEN IsSuffix(key, row.key)
    ELSE row.key = key

\* the OFFSET of ormStore.Read's query: session.Offset(...) builds the
\* clause on a copy of the session and the copy is dropped
ormReadOffset(limit, offset) == 0

\* the OFFSET of ormStore.List's query
ormListOffset(limit, offset) == IF limit # 0 /\ offset # 0 THEN limit * offset ELSE 0

\* the WHERE clause of ormStore.List: the LIKE conditions, then
\* session.Or("id"), which gorm renders as `OR (id)`: true of a row whose
\* id is not 0
ormListWhere(row, lp, ls) ==
    \/ /\ lp # EmptyStr
       /\ IsPrefix(lp, row.key) \/ (ls # EmptyStr /\ IsSuffix(ls, row.key))
    \/ /\ lp = EmptyStr
       /\ ls # EmptyStr
       /\ IsSuffix(ls, row.key)
    \/ row.id # 0

\* the rows a scan keeps: those the lazy-expiration filter lets through
ormLive(scanned, t) == LET Live(r) == ~ormExpired(r, t) IN SelectSeq(scanned, Live)

\* a scan that dispatches no delete
ormStaleNone(scanned, t) == {}

\* the keys a scan dispatches `go orm.Delete(key)` for
ormStale(scanned, t) == { scanned[i].key : i \in { j \in 1..Len(scanned) : ormExpired(scanned[j], t) } }

\* the rows the query of ormStore.Read scans
ormReadScan(k, prefix, suffix, limit, offset) ==
    LET Where(r) == ormReadWhere(r, k, prefix, suffix)
    IN  ormPage(SelectSeq(rows[ormTable], Where), limit, ormReadOffset(limit, offset))

\* what ormStore.Read returns: the record of the call with its result
ormStoreReadResult(k, opt, prefix, suffix, limit, offset) ==
    LET live == ormLive(ormReadScan(k, prefix, suffix, limit, offset), now)
    IN  [ NoCall EXCEPT !.op = "Read", !.opt = opt, !.key = k, !.prefix = prefix,
          !.suffix = suffix, !.limit = limit, !.offset = offset, !.at = now,
          !.out = [ i \in 1..Len(live) |-> [ key |-> live[i].key, val |-> live[i].val ] ] ]

ormStoreRead(k, opt, prefix, suffix, limit, offset) ==
    /\ backend = "mysql"
    /\ res' = ormStoreReadResult(k, opt, prefix, suffix, limit, offset)
    /\ pending' = pending \cup ormStale(ormReadScan(k, prefix, suffix, limit, offset), now)
    /\ UNCHANGED <<writers, backend, now, optTable, rdb, ormTable, rows, nextId, lw>>

\* the rows the query of ormStore.List scans
ormListScan(lp, ls, limit, offset) ==
    LET Where(r) == ormListWhere(r, lp, ls)
    IN  ormPage(SelectSeq(rows[ormTable], Where), limit, ormListOffset(limit, offset))

\* what ormStore.List returns: the record of the call with its result
ormStoreListResult(opt, lp, ls, limit, offset) ==
    LET live == ormLive(ormListScan(lp, ls, limit, offset), now)
    IN  [ NoCall EXCEPT !.op = "List", !.opt = opt, !.lp = lp, !.ls = ls,
          !.limit = limit, !.offset = offset, !.at = now,
          !.out = [ i \in 1..Len(live) |-> [ key |-> live[i].key, val |-> "" ] ] ]

ormStoreList(opt, lp, ls, limit, offset) ==
    /\ backend = "mysql"
    /\ res' = ormStoreListResult(opt, lp, ls, limit, offset)
    /\ pending' = pending \cup ormStale(ormListScan(lp, ls, limit, offset), now)
    /\ UNCHANGED <<writers, backend, now, optTable, rdb, ormTable, rows, nextId, lw>>

ormStoreDelete(k, opt) ==
    /\ backend = "mysql"
    /\ rows' = [ rows EXCEPT ![ormTable] = ormDeleteRow(ormTable, k) ]
    /\ res' = [ NoCall EXCEPT !.op = "Delete", !.opt = opt, !.key = k, !.at = now ]
    /\ lw' = NoWrite
    /\ UNCHANGED <<writers, backend, now, optTable, rdb, ormTable, nextId, pending>>

\* a dispatched `go orm.Delete(storeRecord.Key)` runs
LazyDelete(k) ==
    /\ backend = "mysql"
    /\ k \in pending
    /\ pending' = pending \ {k}
    /\ rows' = [ rows EXCEPT ![ormTable] = ormDeleteRow(ormTable, k) ]
    /\ res' = [ NoCall EXCEPT !.op = "LazyDelete", !.key = k, !.at = now ]
    /\ lw' = NoWrite
    /\ UNCHANGED <<writers, backend, now, optTable, rdb, ormTable, nextId>>

\* a dispatched `go orm.Delete(storeRecord.Key)` runs and its statement
\* fails (the connection is lost, the lock wait times out): Delete returns
\* the error to the goroutine, which drops it; no row is removed
LazyDeleteFails(k) ==
    /\ backend = "mysql"
    /\ k \in pending
    /\ pending' = pending \ {k}
    /\ res' = [ NoCall EXCEPT !.op = "LazyDelete", !.key = k, !.at = now, !.err = "error" ]
    /\ UNCHANGED <<writers, backend, now, optTable, rdb, ormTable, rows, nextId, lw>>

\* the goroutines that call Write concurrently
Writers == { "w1", "w2" }

\* a goroutine that is in no call
Idle ==
    [ pc |-> "idle", key |-> EmptyStr, val |-> "", expiry |-> 0, id |-> 0, err |-> "nil",
      last |-> FALSE ]

\* ormStore.Write up to the first statement of set: the expiry is computed,
\* then SELECT id FROM table WHERE key = ? reads the id (0: no such row)
ormSetLookup(w, k, v, rttl) ==
    /\ backend = "mysql"
    /\ writers[w].pc = "idle"
    /\ writers' = [ writers EXCEPT ![w] =
                      [ pc |-> "looked", key |-> k, val |-> v,
                        expiry |-> ormWriteExpiry(rttl, 0, 0, 0, now),
                        id |-> ormLookupId(ormTable, k), err |-> "nil", last |-> FALSE ] ]
    /\ UNCHANGED <<backend, now, optTable, rdb, ormTable, rows, nextId, pending, res, lw>>

\* the goroutine w has stored last
ormSetDone(w, err) ==
    [ x \in Writers |->
        IF x = w THEN [ writers[x] EXCEPT !.pc = "done", !.err = err, !.last = TRUE ]
        ELSE [ writers[x] EXCEPT !.last = FALSE ] ]

\* the switch of set on the id read before: 0, orm.db.Create(r), which the
\* unique index uniq_key refuses when a row has the key by now; otherwise
\* the transaction SELECT ... FOR UPDATE; UPDATE ... WHERE id = ?, which
\* succeeds also when no row has the id any more
ormSetStore(w) ==
    /\ backend = "mysql"
    /\ writers[w].pc = "looked"
    /\ LET r == writers[w]
       IN  IF r.id = 0
           THEN IF ormLookupId(ormTable, r.key) # 0
                THEN /\ writers' = ormSetDone(w, "error")
                     /\ UNCHANGED <<rows, nextId>>
                ELSE /\ nextId[ormTable] <= MaxId
                     /\ rows' = [ rows EXCEPT ![ormTable] = ormCreate(ormTable, r.key, r.val, r.expiry) ]
                     /\ nextId' = [ nextId EXCEPT ![ormTable] = @ + 1 ]
                     /\ writers' = ormSetDone(w, "nil")
           ELSE /\ rows' = [ rows EXCEPT ![ormTable] = ormUpdate(ormTable, r.id, r.val, r.expiry) ]
                /\ writers' = ormSetDone(w, "nil")
                /\ UNCHANGED nextId
    /\ lw' = NoWrite
    /\ UNCHANGED <<backend, now, optTable, rdb, ormTable, pending, res>>

\* ormStore.Write returns what set returned
ormSetReturn(w) ==
    /\ backend = "mysql"
    /\ writers[w].pc = "done"
    /\ res' = [ NoCall EXCEPT !.op = "Write", !.key = writers[w].key, !.val = writers[w].val,
                !.at = now, !.err = writers[w].err ]
    /\ writers' = [ writers EXCEPT ![w] = Idle ]
    /\ UNCHANGED <<backend, now, optTable, rdb, ormTable, rows, nextId, pending, lw>>

\* ormStore.Init(WithDatabase(_, t)): the option is applied, configure()
\* selects the table and creates it if it does not exist
ormStoreInit(t) ==
    /\ backend = "mysql"
    /\ optTable' = t
    /\ ormTable' = ormConfigureTable(t)
    /\ res' = [ NoCall EXCEPT !.op = "Init", !.at = now ]
    /\ lw' = NoWrite
    /\ UNCHANGED <<writers, backend, now, rdb, rows, nextId, pending>>

-----------------------------------------------------------------------------
(* The clock *)

Tick ==
    /\ now < MaxTime
    /\ now' = now + 1
    /\ rdb' = RedisPurge(rdb, now + 1)
    /\ UNCHANGED <<writers, backend, optTable, ormTable, rows, nextId, pending, res, lw>>

-----------------------------------------------------------------------------
(* The specification: a store built by either NewStore, then any calls *)

EmptyDb == [ rk \in {} |-> [ val |-> "", exp |-> 0 ] ]

Init ==
    /\ backend \in { "redis", "mysql" }
    /\ now = StartTime
    /\ optTable = EmptyStr
    /\ rdb = EmptyDb
    /\ ormTable = ormConfigureTable(EmptyStr)
    /\ rows = [ t \in PhysTables |-> << >> ]
    /\ nextId = [ t \in PhysTables |-> 1 ]
    /\ pending = {}
    /\ res = NoCall
    /\ lw = NoWrite
    /\ writers = [ w \in Writers |-> Idle ]

(* The calls a caller makes, the inputs drawn from the sets of I *)

WriteCalls(I) ==
    \/ \E k \in I.keys, v \in I.values, rttl \in I.rttls, rexp \in I.rexps,
          ottl \in I.ottls, oexp \in I.oexps, opt \in I.opts, h \in I.hist :
          rkvWrite(k, v, rttl, rexp, ottl, oexp, opt, h)
    \/ \E k \in I.keys, v \in I.values, rttl \in I.rttls, rexp \in I.rexps,
          ottl \in I.ottls, oexp \in I.oexps, opt \in I.opts, h \in I.hist :
          ormStoreWrite(k, v, rttl, rexp, ottl, oexp, opt, h)

ReadCalls(I) ==
    \/ \E k \in I.rkeys, opt \in I.opts, prefix, suffix \in I.flags,
          limit \in I.limits, offset \in I.offsets :
          rkvRead(k, opt, prefix, suffix, limit, offset)
    \/ \E k \in I.rkeys, opt \in I.opts, prefix, suffix \in I.flags,
          limit \in I.limits, offset \in I.offsets :
          ormStoreRead(k, opt, prefix, suffix, limit, offset)

ListCalls(I) ==
    \/ \E opt \in I.opts, lp, ls \in I.patterns, limit \in I.limits, offset \in I.offsets :
          rkvList(opt, lp, ls, limit, offset)
    \/ \E opt \in I.opts, lp, ls \in I.patterns, limit \in I.limits, offset \in I.offsets :
          ormStoreList(opt, lp, ls, limit, offset)

DeleteCalls(I) ==
    \/ \E k \in I.keys, opt \in I.opts : rkvDelete(k, opt)
    \/ \E k \in I.keys, opt \in I.opts : ormStoreDelete(k, opt)

InitCalls(I) ==
    \/ \E t \in I.tables : rkvInit(t)
    \/ \E t \in I.tables : ormStoreInit(t)

\* what runs besides the caller: the dispatched deletes and the clock
Background ==
    \/ \E k \in Keys : LazyDelete(k)
    \/ Tick

NextOver(I) ==
    \/ WriteCalls(I)
    \/ ReadCalls(I)
    \/ ListCalls(I)
    \/ DeleteCalls(I)
    \/ InitCalls(I)
    \/ Background

\* callers that exercise the expiry resolution: one key, every TTL / Expiry
ExpiryInputs ==
    [ keys |-> { <<"a">> }, rkeys |-> { <<"a">> }, values |-> { "v1" },
      rttls |-> RecTTLs, rexps |-> RecExpiries, ottls |-> OptTTLs,
      oexps |-> OptExpiries, opts |-> { {} }, flags |-> { FALSE },
      patterns |-> { EmptyStr }, limits |-> { 0 }, offsets |-> { 0 },
      tables |-> { EmptyStr }, hist |-> { TRUE } ]

SpecExpiry == Init /\ [][NextOver(ExpiryInputs)]_vars

\* callers that overwrite and delete: two keys, two values, with and
\* without a TTL
UpsertInputs ==
    [ keys |-> { <<"a">>, <<"b", "a">> },
      rkeys |-> { <<"a">>, <<"b", "a">> }, values |-> Values,
      rttls |-> RecTTLs, rexps |-> { 0 }, ottls |-> { 0 }, oexps |-> { 0 },
      opts |-> { {} }, flags |-> { FALSE }, patterns |-> { EmptyStr },
      limits |-> { 0 }, offsets |-> { 0 }, tables |-> { EmptyStr },
      hist |-> { TRUE } ]

\* any sequence of Writes, Deletes and exact-key Reads
NextUpsert ==
    \/ WriteCalls(UpsertInputs)
    \/ ReadCalls(UpsertInputs)
    \/ DeleteCalls(UpsertInputs)
    \/ Background

SpecUpsert == Init /\ [][NextUpsert]_vars

\* callers that select tables: per call by an option, per store by Init
NamespaceInputs ==
    [ keys |-> { <<"a">> }, rkeys |-> { <<"a">> }, values |-> { "v1" },
      rttls |-> { 0 }, rexps |-> { 0 }, ottls |-> { 0 }, oexps |-> { 0 },
      opts |-> TableOpts, flags |-> { FALSE }, patterns |-> { EmptyStr },
      limits |-> { 0 }, offsets |-> { 0 }, tables |-> StoreTables,
      hist |-> { TRUE } ]

\* no record expires here: the clock and the dispatched deletes are left out
NextNamespace ==
    \/ WriteCalls(NamespaceInputs)
    \/ ReadCalls(NamespaceInputs)
    \/ ListCalls(NamespaceInputs)
    \/ DeleteCalls(NamespaceInputs)
    \/ InitCalls(NamespaceInputs)

SpecNamespace == Init /\ [][NextNamespace]_vars

\* callers that match keys by prefix and suffix
MatchInputs ==
    [ keys |-> Keys, rkeys |-> Keys, values |-> { "v1" }, rttls |-> RecTTLs,
      rexps |-> { 0 }, ottls |-> { 0 }, oexps |-> { 0 }, opts |-> { {} },
      flags |-> BOOLEAN, patterns |-> Patterns, limits |-> { 0 },
      offsets |-> { 0 }, tables |-> { EmptyStr }, hist |-> { FALSE } ]

NextMatch ==
    \/ WriteCalls(MatchInputs)
    \/ ReadCalls(MatchInputs)
    \/ ListCalls(MatchInputs)
    \/ DeleteCalls(MatchInputs)
    \/ Background

SpecMatch == Init /\ [][NextMatch]_vars

\* callers that paginate
PageInputs ==
    [ keys |-> Keys, rkeys |-> { <<"a">> }, values |-> { "v1" },
      rttls |-> RecTTLs, rexps |-> { 0 }, ottls |-> { 0 }, oexps |-> { 0 },
      opts |-> { {} }, flags |-> { TRUE }, patterns |-> { EmptyStr },
      limits |-> Limits, offsets |-> Offsets, tables |-> { EmptyStr },
      hist |-> { FALSE } ]

NextPage ==
    \/ WriteCalls(PageInputs)
    \/ ReadCalls(PageInputs)
    \/ ListCalls(PageInputs)
    \/ Background

SpecPage == Init /\ [][NextPage]_vars

\* callers that write from two goroutines at once
WritersInputs ==
    [ keys |-> { <<"a">>, <<"b", "a">> },
      rkeys |-> { <<"a">> }, values |-> Values,
      rttls |-> { 0 }, rexps |-> { 0 }, ottls |-> { 0 }, oexps |-> { 0 },
      opts |-> { {} }, flags |-> { FALSE }, patterns |-> { EmptyStr },
      limits |-> { 0 }, offsets |-> { 0 }, tables |-> { EmptyStr },
      hist |-> { FALSE } ]

\* no goroutine is inside a Write
Quiet == \A w \in Writers : writers[w].pc = "idle"

\* Writes and Deletes that run alone, and Writes that run concurrently,
\* interleaved statement by statement
NextWriters ==
    \/ Quiet /\ WriteCalls(WritersInputs)
    \/ Quiet /\ DeleteCalls(WritersInputs)
    \/ \E w \in Writers, k \in WritersInputs.keys, v \in WritersInputs.values,
          rttl \in WritersInputs.rttls :
          ormSetLookup(w, k, v, rttl)
    \/ \E w \in Writers : ormSetStore(w)
    \/ \E w \in Writers : ormSetReturn(w)

SpecWriters == Init /\ [][NextWriters]_vars

\* callers that write records with a TTL and scan them, while the dispatched
\* deletes may fail
LazyKeys == { <<"a">>, <<"a", "b">> }

LazyInputs ==
    [ keys |-> LazyKeys, rkeys |-> LazyKeys, values |-> { "v1" }, rttls |-> RecTTLs,
      rexps |-> { 0 }, ottls |-> { 0 }, oexps |-> { 0 }, opts |-> { {} },
      flags |-> { FALSE }, patterns |-> { EmptyStr }, limits |-> { 0 },
      offsets |-> { 0 }, tables |-> { EmptyStr }, hist |-> { FALSE } ]

NextLazy ==
    \/ WriteCalls(LazyInputs)
    \/ ReadCalls(LazyInputs)
    \/ ListCalls(LazyInputs)
    \/ \E k \in LazyKeys : LazyDelete(k)
    \/ \E k \in LazyKeys : LazyDeleteFails(k)
    \/ Tick

\* fair scheduling: a caller keeps scanning every key (an exact-key Read
\* that would dispatch is eventually made), and of the dispatched deletes of
\* a key, run again and again, one eventually succeeds
LazyFairness ==
    \A k \in LazyKeys :
        /\ WF_vars(ormStoreRead(k, {}, FALSE, FALSE, 0, 0))
        /\ SF_vars(LazyDelete(k))

SpecLazy == Init /\ [][NextLazy]_vars /\ LazyFairness

-----------------------------------------------------------------------------
(* The two adapters side by side: a caller builds one store of each kind   *)
(* (backend = "both") and makes every call on both, with the same inputs   *)
(* and at the same clock.  res is the record of the call on the redis      *)
(* store; the call on the mysql store reads and changes rows and pending.  *)

InitPair ==
    /\ backend = "both"
    /\ now = StartTime
    /\ optTable = EmptyStr
    /\ rdb = EmptyDb
    /\ ormTable = ormConfigureTable(EmptyStr)
    /\ rows = [ t \in PhysTables |-> << >> ]
    /\ nextId = [ t \in PhysTables |-> 1 ]
    /\ pending = {}
    /\ res = NoCall
    /\ lw = NoWrite
    /\ writers = [ w \in Writers |-> Idle ]

\* rkv.Write and ormStore.Write of the same record
PairWrite(k, v, rttl) ==
    /\ backend = "both"
    /\ rdb' = RedisSet(rdb, rkvKey({}, k), v, rkvWriteTTL(rttl, 0, 0, 0, now), now)
    /\ ormSet(ormTable, k, v, ormWriteExpiry(rttl, 0, 0, 0, now))
    /\ res' = [ NoCall EXCEPT !.op = "Write", !.key = k, !.val = v, !.rttl = rttl, !.at = now ]
    /\ lw' = NoWrite
    /\ UNCHANGED <<writers, backend, now, optTable, ormTable, pending>>

\* rkv.Read and ormStore.Read of the same key with the same options
PairRead(k, prefix, suffix) ==
    /\ backend = "both"
    /\ res' \in rkvReadResults(k, {}, prefix, suffix, 0, 0)
    /\ pending' = pending \cup ormStale(ormReadScan(k, prefix, suffix, 0, 0), now)
    /\ UNCHANGED <<writers, backend, now, optTable, rdb, ormTable, rows, nextId, lw>>

\* rkv.List and ormStore.List with the same options
PairList(lp, ls) ==
    /\ backend = "both"
    /\ res' \in rkvListResults({}, lp, ls, 0, 0)
    /\ pending' = pending \cup ormStale(ormListScan(lp, ls, 0, 0), now)
    /\ UNCHANGED <<writers, backend, now, optTable, rdb, ormTable, rows, nextId, lw>>

\* rkv.Delete and ormStore.Delete of the same key
PairDelete(k) ==
    /\ backend = "both"
    /\ rdb' = RedisDel(rdb, rkvKey({}, k))
    /\ rows' = [ rows EXCEPT ![ormTable] = ormDeleteRow(ormTable, k) ]
    /\ res' = [ NoCall EXCEPT !.op = "Delete", !.key = k, !.at = now ]
    /\ lw' = NoWrite
    /\ UNCHANGED <<writers, backend, now, optTable, ormTable, nextId, pending>>

\* a `go orm.Delete(key)` the mysql store dispatched runs
PairLazyDelete(k) ==
    /\ backend = "both"
    /\ k \in pending
    /\ pending' = pending \ {k}
    /\ rows' = [ rows EXCEPT ![ormTable] = ormDeleteRow(ormTable, k) ]
    /\ res' = [ NoCall EXCEPT !.op = "LazyDelete", !.key = k, !.at = now ]
    /\ lw' = NoWrite
    /\ UNCHANGED <<writers, backend, now, optTable, rdb, ormTable, nextId>>

PairKeys == { <<"a">>, <<"a", "b">> }

NextPair ==
    \/ \E k \in PairKeys, rttl \in RecTTLs : PairWrite(k, "v1", rttl)
    \/ \E k \in PairKeys, prefix, suffix \in BOOLEAN : PairRead(k, prefix, suffix)
    \/ \E lp, ls \in { EmptyStr, <<"a">> } : PairList(lp, ls)
    \/ \E k \in PairKeys : PairDelete(k)
    \/ \E k \in PairKeys : PairLazyDelete(k)
    \/ Tick

SpecPair == InitPair /\ [][NextPair]_vars

-----------------------------------------------------------------------------
(* Properties.  A state with res.op = "Read" and lw.live is the state      *)
(* after a Read that followed the Write lw with no Write, Delete or Init   *)
(* in between.                                                             *)

\* the last call is an exact-key Read of the key and namespace of the
\* last Write
ReadOfWritten ==
    /\ res.op = "Read"
    /\ ~res.prefix
    /\ ~res.suffix
    /\ lw.live
    /\ res.key = lw.key
    /\ res.opt = lw.opt

\* C1 (read-your-write): after a successful Write of (k, v), an exact-key
\* Read of k in the same namespace, before the record's resolved expiry and
\* with no Write or Delete in between, returns a record whose Value is v.
C1_ReadYourWrite ==
    (ReadOfWritten /\ (lw.expiry = 0 \/ res.at < lw.expiry))
        => /\ res.err = "nil"
           /\ \E i \in 1..Len(res.out) : res.out[i].val = lw.val

\* C2 (lazy expiration): a record whose resolved expiry is not 0 and is at
\* or before the current time is in no result of Read or List; a Read of
\* only such a record reports NotFound, a List over only such records
\* returns the empty list.  (The callers of SpecExpiry use one key, so the
\* written record is the only one of its namespace; the expiry is the one
\* the adapter itself resolved and stored.)
C2_LazyExpiration ==
    (lw.live /\ lw.stored # 0 /\ lw.stored <= res.at)
        => /\ ReadOfWritten => (res.err = "NotFound" /\ res.out = << >>)
           /\ res.op = "List" => res.out = << >>

\* the expiry the adapter stores for a record that is to expire at t: the
\* mysql column holds whole seconds
StoredFor(t) == IF backend = "mysql" THEN TimeUnix(Unix(t)) ELSE t

\* C3 (TTL precedence on Write): a record with a record-level TTL written
\* with an operation-level Expiry resolves to now + the operation-level TTL
\* when that is set too, and to the operation-level Expiry otherwise.
C3_TTLPrecedence ==
    (res.op = "Write" /\ res.rttl # 0 /\ res.oexp # 0)
        => lw.stored = StoredFor(IF res.ottl # 0 THEN res.at + res.ottl ELSE res.oexp)

\* C4 (upsert, key uniqueness): after any sequence of Writes and Deletes a
\* table holds at most one row per key (a redis keyspace, a map, holds one
\* entry per storage key by construction); an exact-key Read that follows
\* the Write of (k, v2), also when that Write overwrote (k, v1), returns at
\* most one record, none with another value than v2, and exactly one while
\* the stored expiry has not passed.
C4_Upsert ==
    /\ \A tab \in PhysTables : \A i, j \in 1..Len(rows[tab]) :
          rows[tab][i].key = rows[tab][j].key => i = j
    /\ ReadOfWritten =>
          /\ Len(res.out) <= 1
          /\ \A i \in 1..Len(res.out) : res.out[i].val = lw.val
          /\ (lw.stored = 0 \/ res.at <= lw.stored) => (res.err = "nil" /\ Len(res.out) = 1)

\* a Read returned the one record of a key written twice, v1 then v2
C4_Witness ==
    /\ ReadOfWritten
    /\ lw.over # ""
    /\ lw.over # lw.val
    /\ Len(res.out) = 1
    /\ res.out[1].val = lw.val

-----------------------------------------------------------------------------
(* Properties of the results.  A state with res.at = now is one the clock  *)
(* has not left since the call res, so the store is the one the call saw.  *)

JustCalled(op) == res.op = op /\ res.at = now

\* the table a call is scoped to, as the contract resolves it: the option of
\* the call, else the table of the store, else the adapter's fallback
CallerTable(opt) ==
    IF opt # {} THEN CHOOSE t \in opt : TRUE
    ELSE IF optTable # EmptyStr THEN optTable
    ELSE IF backend = "mysql" THEN DefaultTable
    ELSE EmptyStr

\* the number of stored rows / entries
StoredCount ==
    IF backend = "redis" THEN Cardinality(DOMAIN rdb)
    ELSE Cardinality({ p \in PhysTables \X (1..MaxId) : p[2] <= Len(rows[p[1]]) })

\* C5 (namespace isolation): a record written by a Write scoped to table t1
\* is in no result of a Read or List scoped to another table t2 (t1, t2
\* names, not the empty string).  Stated for a store that holds one record
\* only, the one of the last Write: a Read or List scoped to another table
\* then returns nothing.
C5_NamespaceIsolation ==
    ( /\ lw.live
      /\ StoredCount = 1
      /\ res.op \in { "Read", "List" }
      /\ CallerTable(lw.opt) # EmptyStr
      /\ CallerTable(res.opt) # EmptyStr
      /\ CallerTable(res.opt) # CallerTable(lw.opt) )
        => res.out = << >>

\* the rows of the store's table in insertion order, those not expired
LiveRows == ormLive(rows[ormTable], now)

\* the non-expired records of the store's own namespace, as (key, value)
NamespaceLive ==
    IF backend = "redis"
    THEN { [ key |-> k, val |-> rdb[optTable \o k].val ] :
              k \in { x \in Keys : RedisHas(optTable \o x) } }
    ELSE { [ key |-> LiveRows[i].key, val |-> LiveRows[i].val ] : i \in 1..Len(LiveRows) }

OutKeys == { res.out[i].key : i \in 1..Len(res.out) }

OutRecords == { res.out[i] : i \in 1..Len(res.out) }

NoDuplicateKey == \A i, j \in 1..Len(res.out) : res.out[i].key = res.out[j].key => i = j

\* C6 (prefix/suffix union in List): List with a non-empty Prefix p and a
\* non-empty Suffix s returns exactly the non-expired keys of the namespace
\* that start with p or end with s, each once.
C6_ListUnion ==
    (JustCalled("List") /\ res.lp # EmptyStr /\ res.ls # EmptyStr /\ res.limit = 0)
        => /\ OutKeys = { r.key : r \in { x \in NamespaceLive :
                              IsPrefix(res.lp, x.key) \/ IsSuffix(res.ls, x.key) } }
           /\ NoDuplicateKey

\* the records a Read(key) is to match, by the key-matching rules
ContractMatch(r, key, prefix, suffix) ==
    IF prefix \/ suffix
    THEN (prefix /\ IsPrefix(key, r.key)) \/ (suffix /\ IsSuffix(key, r.key))
    ELSE r.key = key

ReadMatches == { r \in NamespaceLive : ContractMatch(r, res.key, res.prefix, res.suffix) }

\* C7 (prefix Read): Read(k) with only the Prefix flag succeeds and returns
\* exactly one record for every non-expired stored key with prefix k, each
\* with its own stored key and value, also when nothing is stored under k.
C7_PrefixRead ==
    (JustCalled("Read") /\ res.prefix /\ ~res.suffix /\ res.limit = 0 /\ ReadMatches # {})
        => /\ res.err = "nil"
           /\ OutRecords = ReadMatches
           /\ Len(res.out) = Cardinality(ReadMatches)

\* C8 (NotFound): Read reports NotFound exactly when no matching
\* non-expired record exists, and then returns no record.
C8_NotFound ==
    (JustCalled("Read") /\ res.limit = 0)
        => /\ (res.err = "NotFound") <=> (ReadMatches = {})
           /\ res.err = "NotFound" => res.out = << >>

\* the page Limit = L > 0, Offset = O of a sequence: positions L*O .. L*O+L-1
ContractPageLen(n, L, O) == IF n <= L * O THEN 0 ELSE Min(L, n - L * O)

ContractPage(s, L, O) == [ i \in 1..ContractPageLen(Len(s), L, O) |-> s[L * O + i] ]

OutKeySeq == [ i \in 1..Len(res.out) |-> res.out[i].key ]

NoExpiredStored ==
    IF backend = "redis" THEN \A rk \in DOMAIN rdb : RedisHas(rk)
    ELSE Len(LiveRows) = Len(rows[ormTable])

\* C9 (pagination of List): over n non-expired keys in insertion order, List
\* with Limit = L > 0 and Offset = O returns the keys at positions
\* L*O .. L*O+L-1.  (The redis keyspace records no insertion order: for it
\* the property states the size of that page.)
C9_ListPagination ==
    (JustCalled("List") /\ res.limit > 0 /\ res.lp = EmptyStr /\ res.ls = EmptyStr /\ NoExpiredStored)
        => IF backend = "mysql"
           THEN OutKeySeq = ContractPage([ i \in 1..Len(LiveRows) |-> LiveRows[i].key ],
                                         res.limit, res.offset)
           ELSE Len(res.out) = ContractPageLen(Cardinality(NamespaceLive), res.limit, res.offset)

\* the non-expired rows the last Read or List is to match, in insertion order
LiveMatches ==
    LET Match(r) == IF res.op = "Read"
                    THEN ContractMatch(r, res.key, res.prefix, res.suffix)
                    ELSE \/ res.lp = EmptyStr /\ res.ls = EmptyStr
                         \/ res.lp # EmptyStr /\ IsPrefix(res.lp, r.key)
                         \/ res.ls # EmptyStr /\ IsSuffix(res.ls, r.key)
    IN  SelectSeq(LiveRows, Match)

\* C10 (expired records do not consume pagination): with Limit = L > 0 an
\* expired, not yet purged row takes no Limit or Offset slot: the result of
\* Read and of List is the page of the non-expired matches.  (Only a mysql
\* table can hold an expired row.  For Read the property is stated with
\* Offset = 0.)
C10_ExpiredTakeNoSlot ==
    ( /\ res.op \in { "Read", "List" }
      /\ res.op = "Read" => res.offset = 0
      /\ res.at = now
      /\ res.limit > 0
      /\ backend = "mysql"
      /\ ~NoExpiredStored )
        => OutKeySeq = ContractPage([ i \in 1..Len(LiveMatches) |-> LiveMatches[i].key ],
                                    res.limit, res.offset)

-----------------------------------------------------------------------------
(* Properties of the steps.  A step with res'.op = "Delete" and the clock  *)
(* unchanged is a Delete call: res is its record, the unprimed variables   *)
(* are the store before it, the primed ones the store after it.            *)

\* the tables after Delete(key) scoped to table t, as the contract states it:
\* the row of the key leaves table t, every other row of every table stays
ContractDeleteRows(t, key) ==
    [ tab \in DOMAIN rows |-> IF tab = t THEN ormDeleteRow(tab, key) ELSE rows[tab] ]

\* C11 (Delete effect and frame): Delete(k) returns no error and removes the
\* record stored under exactly k in the namespace the call resolves to, and
\* nothing else: every other key and every other namespace is unchanged, and
\* the store is unchanged when no record is stored under k.
C11_DeleteFrame ==
    [][ (res'.op = "Delete" /\ now' = now)
          => /\ res'.err = "nil"
             /\ backend = "mysql" => rows' = ContractDeleteRows(CallerTable(res'.opt), res'.key)
             /\ backend = "redis" => rdb' = RedisDel(rdb, CallerTable(res'.opt) \o res'.key) ]_vars

-----------------------------------------------------------------------------
(* Concurrent writers *)

\* the rows of the store's table that hold key k
RowsOf(k) == { i \in 1..Len(rows[ormTable]) : rows[ormTable][i].key = k }

\* the row of key k holds what goroutine w wrote
HoldsWriteOf(k, w) ==
    \A i \in RowsOf(k) : /\ rows[ormTable][i].val = writers[w].val
                         /\ rows[ormTable][i].expiry = writers[w].expiry

\* C12 (concurrent writers, mysql): when two concurrent Writes have both
\* run, both return success; if they wrote the same key the table holds
\* exactly one row for it, with the value and expiry of the Write that
\* stored last; if they wrote different keys each key has exactly one row,
\* with what its writer wrote.
C12_ConcurrentWriters ==
    (\A w \in Writers : writers[w].pc = "done")
        => /\ \A w \in Writers : writers[w].err = "nil"
           /\ \A w \in Writers : Cardinality(RowsOf(writers[w].key)) = 1
           /\ \A w \in Writers :
                 (writers[w].last \/ \A x \in Writers \ {w} : writers[x].key # writers[w].key)
                     => HoldsWriteOf(writers[w].key, w)

-----------------------------------------------------------------------------
(* List and Read *)

\* an exact-key Read of k in the store's namespace, made now, yields a record
ReadYields(k) ==
    IF backend = "redis"
    THEN \A r \in rkvReadResults(k, {}, FALSE, FALSE, 0, 0) : r.err = "nil" /\ r.out # << >>
    ELSE LET r == ormStoreReadResult(k, {}, FALSE, FALSE, 0, 0)
         IN  r.err = "nil" /\ r.out # << >>

\* C13 (List/Read agreement): List with an empty option set returns exactly
\* the keys of the non-expired records of the store's namespace, as the
\* caller wrote them: every key it returns, passed unchanged to an exact-key
\* Read, yields a record, and every key whose Read yields a record is
\* returned.  (A redis store with no table name has the whole keyspace as
\* its namespace: the property is stated for a redis store with a table.)
C13_ListReadAgreement ==
    ( /\ JustCalled("List")
      /\ backend = "redis" => optTable # EmptyStr
      /\ res.opt = {}
      /\ res.lp = EmptyStr
      /\ res.ls = EmptyStr
      /\ res.limit = 0 )
        => /\ OutKeys = { r.key : r \in NamespaceLive }
           /\ \A k \in OutKeys : ReadYields(k)
           /\ \A k \in Keys : ReadYields(k) => k \in OutKeys

-----------------------------------------------------------------------------
(* The two adapters compared *)

\* two results are the same outcome: the same success / NotFound and the
\* same set of returned keys and values
SameOutcome(r1, r2) ==
    /\ r1.err = r2.err
    /\ { r1.out[i] : i \in 1..Len(r1.out) } = { r2.out[i] : i \in 1..Len(r2.out) }

\* C14 (backend equivalence): the same calls made on the redis store and on
\* the mysql store yield, call by call, the same outcome: the result of the
\* last Read or List on the redis store (res) is the result of the same
\* call on the mysql store.  (The mysql result is computed in the state
\* after the call: a scan changes no row, and the clock has not moved.)
C14_BackendEquivalence ==
    /\ JustCalled("Read") =>
          SameOutcome(res, ormStoreReadResult(res.key, res.opt, res.prefix, res.suffix,
                                              res.limit, res.offset))
    /\ JustCalled("List") =>
          SameOutcome(res, ormStoreListResult(res.opt, res.lp, res.ls, res.limit, res.offset))

-----------------------------------------------------------------------------
(* Namespace resolution *)

\* table t holds a record of key k (with value v)
StoredIn(t, k) ==
    IF backend = "redis" THEN (t \o k) \in DOMAIN rdb
    ELSE t \in DOMAIN rows /\ \E i \in 1..Len(rows[t]) : rows[t][i].key = k

StoredInWith(t, k, v) ==
    IF backend = "redis" THEN (t \o k) \in DOMAIN rdb /\ rdb[t \o k].val = v
    ELSE /\ t \in DOMAIN rows
         /\ \E i \in 1..Len(rows[t]) : rows[t][i].key = k /\ rows[t][i].val = v

\* C15 (namespace resolution precedence): the table a call addresses is the
\* table of its operation-level option when one is given, else the table of
\* the store, else the adapter's fallback: after a Write the record is
\* stored in that table, and an exact-key Read returns a record exactly when
\* that table holds one for the key.  (For mysql, over the tables the
\* database holds.)
C15_NamespacePrecedence ==
    (backend = "mysql" => CallerTable(res.opt) \in DOMAIN rows)
        => /\ JustCalled("Write") => StoredInWith(CallerTable(res.opt), res.key, res.val)
           /\ (JustCalled("Read") /\ ~res.prefix /\ ~res.suffix)
                 => (res.out # << >> <=> StoredIn(CallerTable(res.opt), res.key))

-----------------------------------------------------------------------------
(* Records without expiry *)

\* the store's namespace holds a record of key k with the no-expiry sentinel
NoExpiryStored(k) ==
    IF backend = "redis"
    THEN (optTable \o k) \in DOMAIN rdb /\ rdb[optTable \o k].exp = 0
    ELSE \E i \in 1..Len(rows[ormTable]) :
            rows[ormTable][i].key = k /\ rows[ormTable][i].expiry = 0

\* the last call is a Write with zero TTL and zero Expiry at both levels
WroteNoExpiry ==
    JustCalled("Write") /\ res.rttl = 0 /\ res.rexp = 0 /\ res.ottl = 0 /\ res.oexp = 0

\* C16 (no-expiry records never expire): a record written with zero TTL and
\* zero Expiry at both levels is stored with the no-expiry sentinel; it stays
\* stored until a Write or a Delete of its key; every exact-key Read of its
\* key and every List matching it returns it; no scan dispatches a delete
\* for it.
C16_NoExpiryNeverExpires ==
    /\ [](WroteNoExpiry => NoExpiryStored(res.key))
    /\ [][ \A k \in Keys :
              NoExpiryStored(k) =>
                  \/ NoExpiryStored(k)'
                  \/ res'.op \in { "Write", "Delete" } /\ res'.key = k ]_vars
    /\ []( (JustCalled("Read") /\ ~res.prefix /\ ~res.suffix /\ NoExpiryStored(res.key))
              => res.err = "nil" /\ res.out # << >> )
    /\ []( (JustCalled("List") /\ res.limit = 0)
              => \A k \in Keys : NoExpiryStored(k) => k \in OutKeys )
    /\ [][ \A k \in pending' \ pending : ~NoExpiryStored(k) ]_vars

-----------------------------------------------------------------------------
(* The dispatched deletes *)

\* the step is the run of a dispatched `go orm.Delete(key)`
LazyDeleteStep == res'.op = "LazyDelete" /\ pending' # pending

\* C19 (lazy delete never removes a live record, mysql): the delete a scan
\* dispatched for key k removes only a row that is expired when the delete
\* runs: a fresh, non-expired record written under k between the scan and
\* the delete is still stored after it.
C19_LazyDeleteSparesLive ==
    [][ LazyDeleteStep =>
          \A i \in 1..Len(rows[ormTable]) :
              ~ormExpired(rows[ormTable][i], now)
                  => \E j \in 1..Len(rows'[ormTable]) : rows'[ormTable][j] = rows[ormTable][i] ]_vars

-----------------------------------------------------------------------------
(* Read and List *)

\* the keys ormStore.List returns now for the match and the page of the last
\* Read: Prefix / Suffix are the key of the Read where its flags are set
ListLikeRead ==
    LET r == ormStoreListResult(res.opt,
                                IF res.prefix THEN res.key ELSE EmptyStr,
                                IF res.suffix THEN res.key ELSE EmptyStr,
                                res.limit, res.offset)
    IN  [ i \in 1..Len(r.out) |-> r.out[i].key ]

\* C18 (Read and List paginate alike, mysql): for the same rows, the same
\* prefix/suffix match and the same Limit = L > 0 and Offset = O > 0, the
\* keys of the records Read returns are the keys List returns, and they are
\* the page L*O .. L*O+L-1 of the matches in ascending id order.
C18_ReadListPaginateAlike ==
    ( /\ backend = "mysql"
      /\ JustCalled("Read")
      /\ res.prefix \/ res.suffix
      /\ res.limit > 0
      /\ res.offset > 0 )
        => /\ OutKeySeq = ListLikeRead
           /\ NoExpiredStored =>
                 OutKeySeq = ContractPage([ i \in 1..Len(LiveMatches) |-> LiveMatches[i].key ],
                                          res.limit, res.offset)

\* the step is a Read or List scan of the mysql store
ScanStep ==
    /\ backend = "mysql"
    /\ res'.op \in { "Read", "List" }
    /\ now' = now
    /\ res' # res \/ pending' # pending

\* the rows the scan of the step encountered, and the keys of the expired ones
Encountered ==
    IF res'.op = "Read"
    THEN ormReadScan(res'.key, res'.prefix, res'.suffix, res'.limit, res'.offset)
    ELSE ormListScan(res'.lp, res'.ls, res'.limit, res'.offset)

EncounteredExpired ==
    { Encountered[i].key : i \in { j \in 1..Len(Encountered) : ormExpired(Encountered[j], now) } }

\* the store holds an expired row of key k
ExpiredStored(k) ==
    /\ backend = "mysql"
    /\ \E i \in RowsOf(k) : ormExpired(rows[ormTable][i], now)

\* C17 (fire-and-forget lazy delete, mysql): a Read or List scan dispatches a
\* delete for the key of every expired row it encounters and for no other
\* key, and returns without waiting: it removes no row itself and its
\* result is that of the rows it scanned, whatever becomes of the delete; a
\* delete that fails leaves every row stored; and under fair scheduling,
\* with scans repeated and a delete that eventually succeeds, an expired
\* row is eventually removed.
C17_FireAndForget ==
    /\ [][ ScanStep =>
              /\ pending' = pending \cup EncounteredExpired
              /\ rows' = rows
              /\ res'.err = "nil"
              /\ OutKeySeq' = LET live == ormLive(Encountered, now)
                              IN  [ i \in 1..Len(live) |-> live[i].key ] ]_vars
    /\ [][ (LazyDeleteStep /\ res'.err # "nil") => rows' = rows ]_vars
    /\ \A k \in LazyKeys : ExpiredStored(k) ~> ~ExpiredStored(k)

\* a dispatched delete has failed: the expired row of its key is still
\* stored and no delete is pending for it, until a scan finds it again
C17_Witness ==
    /\ res.op = "LazyDelete"
    /\ res.err = "error"
    /\ ExpiredStored(res.key)
    /\ res.key \notin pending

====
